---- MODULE Spec2Model ----
(***************************************************************************)
(* Model of the fixed-shape matrix core of the `cg` crate                  *)
(* (src/cg/src/math/matrix.rs) and of the typed-array export helpers that  *)
(* hand a matrix to the browser (src/cg/src/web/array.rs,                  *)
(* src/cg/src/util/js.rs).                                                 *)
(*                                                                         *)
(* A matrix value MX<T, R, C> is the record [R, C, data]; data is the      *)
(* array [T; R * C], a sequence indexed from 1, so the Rust offset k is    *)
(* data[k + 1].  Elements are small naturals: every float the model        *)
(* handles is a small integer, on which f32/f64 arithmetic is exact.       *)
(***************************************************************************)
EXTENDS Integers, Sequences, FiniteSets, TLC

\* ---- bounds of the exploration ----

\* Largest number of cells R * C of an enumerated matrix.
MaxCells == 6

\* Enumerated element values are 0 .. MaxVal.
MaxVal == 1

\* Largest number of cells of an operand of an enumerated product.
MaxMulCells == 4

\* Number of cells of the modelled region of the linear memory.
MemSize == 4

\* The matrices given to an operator with every right operand have MaxOpCells
\* cells at most.
MaxOpCells == 3

Values == 0 .. MaxVal

\* ---- values ----

\* MX<T, R, C> { data }
Mx(r, c, d) == [R |-> r, C |-> c, data |-> d]

Cells(mm) == mm.R * mm.C

Shapes == {s \in (1 .. MaxCells) \X (1 .. MaxCells) : s[1] * s[2] <= MaxCells}

SeqsOfLen(n) == [1 .. n -> Values]

Matrices == UNION {{Mx(s[1], s[2], d) : d \in SeqsOfLen(s[1] * s[2])} : s \in Shapes}

\* How a call ends: with a value, with a panic, or rejected by the compiler.
Ok(v) == [kind |-> "ok", val |-> v]

Panic == [kind |-> "panic"]

CompileError == [kind |-> "compile_error"]

NoRet == [kind |-> "none"]

\* T::default() and T::zero() of the numeric element types.
Default == 0

Zero == 0

\* No typed array has been exported.
NoArray == [by |-> "none", kind |-> "none", begin |-> 0, len |-> 0, buf |-> <<>>]

NoWas == [arr |-> <<>>, mem |-> <<>>]

\* ---- state ----

VARIABLES
    m,      \* the matrix value the caller holds; in the storage specification,
            \* the pointer to the place that holds it
    old,    \* the value of m when the most recent call was made
    op,     \* the most recent call
    arg,    \* its arguments
    ret,    \* how it ended
    mem,    \* the cells of the WebAssembly linear memory the export touches; in
            \* the storage specification, the cells of the caller's places
    arr,    \* the typed array the external consumer holds
    was,    \* the array's contents and the memory before the most recent step
    checks  \* whether the build checks integer overflow (on in a debug build)

vars == <<m, old, op, arg, ret, mem, arr, was, checks>>

exportVars == <<mem, arr, was>>

\* ---- from_iter ----

\* matrix!((R, C)(V)): every cell holds V.
Filled(r, c, v) == Mx(r, c, [k \in 1 .. r * c |-> v])

Min(a, b) == IF a < b THEN a ELSE b

\* What a cell that was never written may hold: zero, one, or any other value,
\* for which -1 stands.
Garbage == {0 - 1, 0, 1}

\* What n cells that were never written may hold: every content, each cell on
\* its own.
Junk(n) == [1 .. n -> Garbage]

\* matrix!((R, C)<T>): the cells are not initialised; junk is what the memory of
\* each cell happens to hold.
Uninit(r, c, junk) == Mx(r, c, [k \in 1 .. r * c |-> junk[k]])

\* A plausible slip: the last cell is never taken from the input.
TakeOneLess(n, r, c) == Min(n, r * c - 1)

\* .take(R * C) on an input of n items: how many items pass.
Take(n, r, c) == Min(n, r * c)

\* iter.enumerate().take(R * C).for_each(|(i, v)| res.data[i] = v), from item i on.
RECURSIVE FromIterLoop(_, _, _)
FromIterLoop(res, items, i) ==
    IF i >= Take(Len(items), res.R, res.C)
    THEN res
    ELSE FromIterLoop([res EXCEPT !.data[i + 1] = items[i + 1]], items, i + 1)

from_iter(r, c, items) == FromIterLoop(Filled(r, c, Default), items, 0)

\* self.data.into_iter()
into_iter(mm) == mm.data

\* ---- literal forms of matrix! ----

\* count!: () => 0; (head, tail...) => 1 + count!(tail...)
RECURSIVE count(_)
count(tokens) == IF tokens = <<>> THEN 0 ELSE 1 + count(Tail(tokens))

\* $($($v,)+)+ : the values of all row-literals, in the order they are written.
\* A plausible slip: each row is put in front of the rows before it.
RECURSIVE FlattenPrepending(_)
FlattenPrepending(rows) ==
    IF rows = <<>> THEN <<>> ELSE FlattenPrepending(Tail(rows)) \o Head(rows)

RECURSIVE Flatten(_)
Flatten(rows) == IF rows = <<>> THEN <<>> ELSE Head(rows) \o Flatten(Tail(rows))

\* MX::<_, R, C> { data: [...] } type-checks only when the array literal has R * C
\* elements, since data is [T; R * C].
StructLiteral(r, c, d) == IF Len(d) = r * c THEN Ok(Mx(r, c, d)) ELSE CompileError

\* matrix!([r0...][r1...]...): R counts the row-literals, C is the number of all
\* values divided by R (usize division), data lists all values.
MatrixRows(rows) ==
    LET r == count(rows)
        c == count(Flatten(rows)) \div r
    IN  StructLiteral(r, c, Flatten(rows))

\* The literals of the unit tests (test::iter, test::index, test::algebra).
ExampleA == MatrixRows(<<<<0, 1, 2, 3>>, <<4, 5, 6, 7>>>>).val

ExampleB == MatrixRows(<<<<0, 1>>, <<2, 3>>, <<4, 5>>, <<6, 7>>>>).val

ExampleMatrices == {ExampleA, ExampleB}

\* ---- the construction specification: a program builds a matrix ----

\* No matrix has been built yet.
NoMatrix == Mx(0, 0, <<>>)

\* Input sequences: shorter than, as long as, and longer than the enumerated shapes.
IterInputs == UNION {SeqsOfLen(n) : n \in 0 .. MaxCells + 1}

\* The target shapes of test::iter next to the enumerated ones.
IterShapes == Shapes \cup {<<2, 4>>, <<4, 2>>, <<1, 1>>, <<2, 2>>}

FromIter ==
    /\ op = "start"
    /\ \E s \in IterShapes, items \in IterInputs \cup {into_iter(ExampleA)} :
         /\ m' = from_iter(s[1], s[2], items)
         /\ old' = m
         /\ op' = "from_iter"
         /\ arg' = [R |-> s[1], C |-> s[2], items |-> items]
         /\ ret' = Ok(m')
         /\ UNCHANGED <<exportVars, checks>>

\* Splits the flat value list d into rows of the lengths lens.
RECURSIVE SplitRows(_, _)
SplitRows(d, lens) ==
    IF lens = <<>>
    THEN <<>>
    ELSE <<SubSeq(d, 1, Head(lens))>> \o SplitRows(SubSeq(d, Head(lens) + 1, Len(d)), Tail(lens))

RECURSIVE SumSeq(_)
SumSeq(s) == IF s = <<>> THEN 0 ELSE Head(s) + SumSeq(Tail(s))

\* The ways to write n values as one or more rows of one or more values each.
RECURSIVE RowLengthsOf(_)
RowLengthsOf(n) ==
    IF n = 0
    THEN {<<>>}
    ELSE UNION {{<<k>> \o l : l \in RowLengthsOf(n - k)} : k \in 1 .. n}

\* Row lengths of the enumerated nested-row literals: MaxCells values at most.
RowLengths == UNION {RowLengthsOf(n) : n \in 1 .. MaxCells}

\* matrix!([r0...][r1...]...), for every row lengths and every values.
LiteralRows ==
    /\ op = "start"
    /\ \E l \in RowLengths :
         \E d \in SeqsOfLen(SumSeq(l)) :
            /\ op' = "matrix_rows"
            /\ arg' = [rows |-> SplitRows(d, l)]
            /\ ret' = MatrixRows(SplitRows(d, l))
            /\ m' = IF ret'.kind = "ok" THEN ret'.val ELSE m
            /\ old' = m
            /\ UNCHANGED <<exportVars, checks>>

\* A plausible slip: the row-vector alias puts the dimension in the row count.
VRAsColumn(dd) == <<dd, 1>>

\* pub type VR<T, const D: usize> = MX<T, 1, D>: the row and column counts.
VR(dd) == <<1, dd>>

\* pub type VC<T, const D: usize> = MX<T, D, 1>: the row and column counts.
VC(dd) == <<dd, 1>>

\* matrix!(VR[v0, v1, ...]): the constant named R counts the values.
MatrixVR(values) ==
    LET R == count(values)
    IN  StructLiteral(VR(R)[1], VR(R)[2], values)

\* matrix!(VC[v0, v1, ...]): the constant named C counts the values.
MatrixVC(values) ==
    LET C == count(values)
    IN  StructLiteral(VC(C)[1], VC(C)[2], values)

\* The value lists given to the vector forms: every list of MaxCells values at
\* most, and the list of test::init.
VectorLiterals == UNION {SeqsOfLen(n) : n \in 1 .. MaxCells} \cup {<<0, 1, 2, 3>>}

\* matrix!(VR[...])
LiteralVR ==
    /\ op = "start"
    /\ \E values \in VectorLiterals :
         /\ op' = "matrix_vr"
         /\ arg' = [values |-> values]
         /\ ret' = MatrixVR(values)
         /\ m' = IF ret'.kind = "ok" THEN ret'.val ELSE m
         /\ old' = m
         /\ UNCHANGED <<exportVars, checks>>

\* matrix!(VC[...])
LiteralVC ==
    /\ op = "start"
    /\ \E values \in VectorLiterals :
         /\ op' = "matrix_vc"
         /\ arg' = [values |-> values]
         /\ ret' = MatrixVC(values)
         /\ m' = IF ret'.kind = "ok" THEN ret'.val ELSE m
         /\ old' = m
         /\ UNCHANGED <<exportVars, checks>>

\* The nested-row literals of the tests, with their values as integers.
TestLiterals ==
    { <<<<0, 1, 2, 3>>, <<4, 5, 6, 7>>>>,
      <<<<0, 1>>, <<2, 3>>, <<4, 5>>, <<6, 7>>>>,
      <<<<0, 1>>, <<2, 3>>>>,
      <<<<0, 1>>, <<4, 5>>>>,
      <<<<28, 34>>, <<76, 98>>>> }

\* matrix!([r0...][r1...]...), for the literals of the tests.
LiteralRowsOfTests ==
    /\ op = "start"
    /\ \E rows \in TestLiterals :
         /\ op' = "matrix_rows"
         /\ arg' = [rows |-> rows]
         /\ ret' = MatrixRows(rows)
         /\ m' = IF ret'.kind = "ok" THEN ret'.val ELSE m
         /\ old' = m
         /\ UNCHANGED <<exportVars, checks>>

\* matrix!((R, C)<T>), as in test::init: the matrix the program holds has the
\* cells the memory happened to hold.
LiteralUninit ==
    /\ op = "start"
    /\ \E s \in IterShapes :
         \E junk \in Junk(s[1] * s[2]) :
            /\ op' = "matrix_uninit"
            /\ arg' = [R |-> s[1], C |-> s[2], junk |-> junk]
            /\ ret' = Ok(Uninit(s[1], s[2], junk))
            /\ m' = ret'.val
            /\ old' = m
            /\ UNCHANGED <<exportVars, checks>>

\* matrix!((R, C)(V)), as in test::init, for the values of the matrices and -1.
LiteralFilled ==
    /\ op = "start"
    /\ \E s \in IterShapes, v \in Values \cup {0 - 1} :
         /\ op' = "matrix_filled"
         /\ arg' = [R |-> s[1], C |-> s[2], v |-> v]
         /\ ret' = Ok(Filled(s[1], s[2], v))
         /\ m' = ret'.val
         /\ old' = m
         /\ UNCHANGED <<exportVars, checks>>

\* The value lists given with the shape s: one value at least, and one fewer than,
\* as many as, and one more than the cells of the shape; and the list of
\* test::init.
FlatLiterals(s) ==
    UNION {SeqsOfLen(n) : n \in {k \in s[1] * s[2] - 1 .. s[1] * s[2] + 1 : k >= 1}}
        \cup {<<0, 1, 2, 3>>}

\* matrix!((R, C)[d0, d1, ...]), as in test::init: the struct literal.
LiteralFlat ==
    /\ op = "start"
    /\ \E s \in Shapes :
         \E values \in FlatLiterals(s) :
            /\ op' = "matrix_list"
            /\ arg' = [R |-> s[1], C |-> s[2], values |-> values]
            /\ ret' = StructLiteral(s[1], s[2], values)
            /\ m' = IF ret'.kind = "ok" THEN ret'.val ELSE m
            /\ old' = m
            /\ UNCHANGED <<exportVars, checks>>

InitNew ==
    /\ m = NoMatrix
    /\ old = NoMatrix
    /\ op = "start"
    /\ arg = [none |-> 0]
    /\ ret = NoRet
    /\ mem = <<>>
    /\ arr = NoArray
    /\ was = NoWas
    /\ checks \in BOOLEAN

NextNew ==
    \/ FromIter
    \/ LiteralRows
    \/ LiteralRowsOfTests
    \/ LiteralVR
    \/ LiteralVC
    \/ LiteralUninit
    \/ LiteralFilled
    \/ LiteralFlat

SpecNew == InitNew /\ [][NextNew]_vars

\* ---- index ----

\* A plausible slip: an offset past the end is clamped to the last cell.
ArrayRefClamped(d, k) ==
    IF k < Len(d)
    THEN [kind |-> "ok", at |-> k, val |-> d[k + 1]]
    ELSE [kind |-> "ok", at |-> Len(d) - 1, val |-> d[Len(d)]]

\* self.data[k] on the array data: a reference to cell k, or a panic when k is
\* not below the array's length.
ArrayRef(d, k) == IF k < Len(d) THEN [kind |-> "ok", at |-> k, val |-> d[k + 1]] ELSE Panic

\* op_index!(usize, index, index): the accessor of the linear index.
Accessor1(mm, i) == i

\* A usize of a 64-bit target is held as its digits in base 2^16, the lowest
\* first, so that every usize, up to 2^64 - 1, is a value of the model.
LimbBase == 65536

USizeLimbs == 4

\* The usize of a number n below 2^31.
USize(n) ==
    [k \in 1 .. USizeLimbs |-> IF k = 1 THEN n % LimbBase ELSE IF k = 2 THEN n \div LimbBase ELSE 0]

\* The usize u is below 2^31.
Fits(u) == u[2] < LimbBase \div 2 /\ \A k \in 3 .. USizeLimbs : u[k] = 0

\* The number a usize below 2^31 stands for.
Number(u) == u[1] + LimbBase * u[2]

\* u < n, for a number n below 2^31.
Below(u, n) == Fits(u) /\ Number(u) < n

\* r * a + b in usize, for a dimension r: the sum modulo 2^64, and whether the
\* product or the sum left usize; t[k] is digit k of the sum with what it
\* carries.
USizeMulAdd(r, a, b) ==
    LET t[k \in 1 .. USizeLimbs] ==
            r * a[k] + b[k] + (IF k = 1 THEN 0 ELSE t[k - 1] \div LimbBase)
    IN  [wrapped |-> [k \in 1 .. USizeLimbs |-> t[k] % LimbBase],
         overflow |-> t[USizeLimbs] \div LimbBase > 0]

\* op_index!((usize, usize), index, R * index.0 + index.1): the accessor of the
\* 2-D index, in usize: when the product or the sum leaves usize, a build with
\* overflow checks panics and a build without them goes on with the offset
\* modulo 2^64.
Accessor2(mm, row, col) ==
    LET s == USizeMulAdd(mm.R, row, col)
    IN  IF s.overflow /\ checks THEN Panic ELSE Ok(s.wrapped)

\* Index<usize>::index
index(mm, i) == ArrayRef(mm.data, Accessor1(mm, i))

\* Index<(usize, usize)>::index: self.data[$accessor]; an offset of 2^31 or more
\* is not below the length of an array.
index2(mm, row, col) ==
    LET at == Accessor2(mm, row, col)
    IN  IF at.kind = "ok" /\ Fits(at.val) THEN ArrayRef(mm.data, Number(at.val)) ELSE Panic

\* *r = v through the reference r that index_mut returned on mm.
Store(mm, r, v) == [mm EXCEPT !.data[r.at + 1] = v]

\* ---- algebra ----

\* A plausible slip: the destination offset leaves the row out.
TransposeDstNoRow(self, i, j) == self.R * j

\* A plausible slip: the source offset uses the row count as the stride.
TransposeSrcStrideR(self, i, j) == self.R * i + j

\* self[C * i + j]: the offset transpose reads.
TransposeSrc(self, i, j) == self.C * i + j

\* A plausible slip: the stride of the input instead of the stride of the result.
TransposeDstStrideC(self, i, j) == self.C * j + i

\* res[R * j + i]: the offset transpose writes.
TransposeDst(self, i, j) == self.R * j + i

\* for j in j..C { res[R * j + i] = self[C * i + j] }
RECURSIVE TransposeCols(_, _, _, _)
TransposeCols(self, res, i, j) ==
    IF j >= self.C
    THEN Ok(res)
    ELSE LET src == index(self, TransposeSrc(self, i, j))
             dst == index(res, TransposeDst(self, i, j))
         IN  IF src.kind = "ok" /\ dst.kind = "ok"
             THEN TransposeCols(self, Store(res, dst, src.val), i, j + 1)
             ELSE Panic

\* for i in i..R { for j in 0..C { ... } }
RECURSIVE TransposeRows(_, _, _)
TransposeRows(self, res, i) ==
    IF i >= self.R
    THEN Ok(res)
    ELSE LET row == TransposeCols(self, res, i, 0)
         IN  IF row.kind = "ok" THEN TransposeRows(self, row.val, i + 1) ELSE Panic

transpose(self, junk) == TransposeRows(self, Uninit(self.C, self.R, junk), 0)

\* The offsets of res that the loops of transpose assign.
Assigned(self) ==
    {TransposeDst(self, ij[1], ij[2]) : ij \in (0 .. self.R - 1) \X (0 .. self.C - 1)}

\* The contents of the uninitialised res that a call of transpose can tell apart
\* when it returns: res is never read, so a cell the loops assign holds what was
\* assigned whatever it held before, and the contents are drawn for the other
\* cells only.
JunkLeft(self) ==
    LET n == self.R * self.C
        left == {k \in 1 .. n : k - 1 \notin Assigned(self)}
    IN  {[k \in 1 .. n |-> IF k \in left THEN u[k] ELSE Default] : u \in [left -> Garbage]}

\* A plausible slip: the result offset uses the column count of the left operand.
MultiplyDstStrideC(self, rhs, i, j) == self.C * i + j

\* res[C_ * i + j]: the cell multiply accumulates into.
MultiplyDst(self, rhs, i, j) == rhs.C * i + j

\* A plausible slip: the left offset uses the row count as the stride.
MultiplyLhsStrideR(self, rhs, i, k) == self.R * i + k

\* self[C * i + k]: the left factor.
MultiplyLhs(self, rhs, i, k) == self.C * i + k

\* A plausible slip: the right factor is read along a row, not a column.
MultiplyRhsRow(self, rhs, k, j) == rhs.C * j + k

\* rhs[C_ * k + j]: the right factor.
MultiplyRhs(self, rhs, k, j) == rhs.C * k + j

\* for k in k..C { res[C_ * i + j] = res[C_ * i + j] + self[C * i + k] * rhs[C_ * k + j] }
RECURSIVE MultiplyInner(_, _, _, _, _, _)
MultiplyInner(self, rhs, res, i, j, k) ==
    IF k >= self.C
    THEN Ok(res)
    ELSE LET acc == index(res, MultiplyDst(self, rhs, i, j))
             a == index(self, MultiplyLhs(self, rhs, i, k))
             b == index(rhs, MultiplyRhs(self, rhs, k, j))
         IN  IF acc.kind = "ok" /\ a.kind = "ok" /\ b.kind = "ok"
             THEN MultiplyInner(self, rhs, Store(res, acc, acc.val + a.val * b.val), i, j, k + 1)
             ELSE Panic

\* for j in j..C_ { for k in 0..C { ... } }
RECURSIVE MultiplyCols(_, _, _, _, _)
MultiplyCols(self, rhs, res, i, j) ==
    IF j >= rhs.C
    THEN Ok(res)
    ELSE LET cell == MultiplyInner(self, rhs, res, i, j, 0)
         IN  IF cell.kind = "ok" THEN MultiplyCols(self, rhs, cell.val, i, j + 1) ELSE Panic

\* for i in i..R { for j in 0..C_ { ... } }
RECURSIVE MultiplyRows(_, _, _, _)
MultiplyRows(self, rhs, res, i) ==
    IF i >= self.R
    THEN Ok(res)
    ELSE LET row == MultiplyCols(self, rhs, res, i, 0)
         IN  IF row.kind = "ok" THEN MultiplyRows(self, rhs, row.val, i + 1) ELSE Panic

multiply(self, rhs) == MultiplyRows(self, rhs, Filled(self.R, rhs.C, Zero), 0)

\* A plausible slip: a subtraction that wraps instead of failing.
ConstSubWrapping(a, b) == Ok(IF a < b THEN b - a ELSE a - b)

\* a - b on usize inside a constant expression: an overflow is an evaluation error.
ConstSub(a, b) == IF a < b THEN CompileError ELSE Ok(a - b)

\* x * y on usize inside a constant expression, of two evaluated operands.
ConstMul(x, y) == IF x.kind = "ok" /\ y.kind = "ok" THEN Ok(x.val * y.val) ELSE CompileError

\* where [(); (R * C - R_ * C_) * (R_ * C_ - R * C)]: the bound holds when the
\* expression can be evaluated.
ReshapeBound(r, c, r_, c_) == ConstMul(ConstSub(r * c, r_ * c_), ConstSub(r_ * c_, r * c)).kind = "ok"

\* A plausible slip: the cast pointer is one element off.
ReinterpretOffByOne(d, n, junk) == [k \in 1 .. n |-> IF k + 1 <= Len(d) THEN d[k + 1] ELSE junk]

\* *(&self as *const MX<T, R, C> as *const MX<T, R_, C_>): reads n cells from the
\* address of d; past the end of d it reads what the memory happens to hold.
Reinterpret(d, n, junk) == [k \in 1 .. n |-> IF k <= Len(d) THEN d[k] ELSE junk]

reshape(self, r_, c_, junk) ==
    IF ReshapeBound(self.R, self.C, r_, c_)
    THEN Ok(Mx(r_, c_, Reinterpret(self.data, r_ * c_, junk)))
    ELSE CompileError

\* ---- operators ----

\* The operator families of op_math_binary! and op_math_assign!, by the name of
\* the value-producing function.
Ops == {"add", "sub", "mul", "div", "rem", "bitand", "bitor", "bitxor", "shl", "shr"}

\* The largest and the smallest i32.
MaxI32 == 2147483647

MinI32 == 0 - MaxI32 - 1

\* 2^30, half of the distance from 0 to the end of i32.
P30 == MaxI32 \div 2 + 1

\* The bit pattern of -1 in i32: every bit is one.
AllOnes == 0 - 1

\* a + b leaves i32.
AddOverflows(a, b) == (b > 0 /\ a > MaxI32 - b) \/ (b < 0 /\ a < MinI32 - b)

\* a.wrapping_add(b): the sum modulo 2^32, as an i32.
WrappingAdd(a, b) ==
    IF b > 0 /\ a > MaxI32 - b
    THEN ((a - P30) - P30) + ((b - P30) - P30)
    ELSE IF b < 0 /\ a < MinI32 - b
         THEN ((a + P30) + P30) + ((b + P30) + P30)
         ELSE a + b

\* a - b leaves i32.
SubOverflows(a, b) == (b < 0 /\ a > MaxI32 + b) \/ (b > 0 /\ a < MinI32 + b)

\* a.wrapping_sub(b)
WrappingSub(a, b) ==
    IF b < 0 /\ a > MaxI32 + b
    THEN ((a - P30) - P30) - ((b + P30) + P30)
    ELSE IF b > 0 /\ a < MinI32 + b
         THEN ((a + P30) + P30) - ((b - P30) - P30)
         ELSE a - b

\* |a|, for a above MinI32.
Abs(a) == IF a < 0 THEN 0 - a ELSE a

\* 2^31 \div d, for d from 2 on.
P31Div(d) == MaxI32 \div d + (IF MaxI32 % d = d - 1 THEN 1 ELSE 0)

\* a * b leaves i32.
MulOverflows(a, b) ==
    IF a = 0 \/ b = 0 \/ a = 1 \/ b = 1
    THEN FALSE
    ELSE IF a = MinI32 \/ b = MinI32
         THEN TRUE
         ELSE IF a = AllOnes \/ b = AllOnes
              THEN FALSE
              ELSE IF (a < 0) = (b < 0)
                   THEN Abs(a) > MaxI32 \div Abs(b)
                   ELSE Abs(a) > P31Div(Abs(b))

\* a.wrapping_mul(b): the product modulo 2^32, bit by bit of b; h is a times the
\* higher bits of b.
RECURSIVE WrappingMul(_, _)
WrappingMul(a, b) ==
    IF b = 0
    THEN 0
    ELSE IF b = AllOnes
         THEN WrappingSub(0, a)
         ELSE CHOOSE p \in {IF b % 2 = 1
                            THEN WrappingAdd(WrappingAdd(h, h), a)
                            ELSE WrappingAdd(h, h) : h \in {WrappingMul(a, b \div 2)}} : TRUE

\* a / b of i32, which rounds toward zero, for b # 0 and not MinI32 / -1.
RECURSIVE TruncDiv(_, _)
TruncDiv(a, b) ==
    IF b > 0
    THEN IF a >= 0 THEN a \div b ELSE a \div b + (IF a % b # 0 THEN 1 ELSE 0)
    ELSE IF b = MinI32
         THEN IF a = MinI32 THEN 1 ELSE 0
         ELSE 0 - TruncDiv(a, 0 - b)

\* a % b of i32, which has the sign of a, for b # 0 and not MinI32 % -1.
TruncRem(a, b) ==
    IF b = MinI32
    THEN IF a = MinI32 THEN 0 ELSE a
    ELSE LET d == Abs(b)
             r == a % d
         IN  IF a >= 0 \/ r = 0 THEN r ELSE r - d

\* One bit of a & b, a | b, a ^ b.
Bit(f, x, y) ==
    CASE f = "bitand" -> IF x = 1 /\ y = 1 THEN 1 ELSE 0
      [] f = "bitor" -> IF x = 1 \/ y = 1 THEN 1 ELSE 0
      [] f = "bitxor" -> IF x # y THEN 1 ELSE 0

\* A bitwise operator on two i32 in two's complement: bit by bit from the lowest;
\* what is left of a negative operand is -1, all sign bits.
RECURSIVE Bitwise(_, _, _)
Bitwise(f, a, b) ==
    IF a \in {0, AllOnes} /\ b \in {0, AllOnes}
    THEN 0 - Bit(f, 0 - a, 0 - b)
    ELSE Bit(f, a % 2, b % 2) + 2 * Bitwise(f, a \div 2, b \div 2)

\* The width of i32 in bits.
Bits == 32

\* a << n for n below the width: the bits that leave the width are dropped.
RECURSIVE ShlBits(_, _)
ShlBits(a, n) ==
    IF n = 0
    THEN a
    ELSE CHOOSE p \in {WrappingAdd(h, h) : h \in {ShlBits(a, n - 1)}} : TRUE

\* a >> n for n below the width: the sign bit is copied in from the left.
RECURSIVE ShrBits(_, _)
ShrBits(a, n) == IF n = 0 THEN a ELSE ShrBits(a \div 2, n - 1)

\* What an operation that overflowed does: a build with overflow checks panics,
\* a build without them goes on with the wrapped result.
Overflowed(wrapped) == IF checks THEN Panic ELSE Ok(wrapped)

\* $op::$fn(a, b) on the element type, i32 as in the tests.  A sum, a difference
\* or a product that leaves i32, and a shift by an amount outside 0 .. 31, panic
\* with overflow checks and wrap without them (the amount is masked to its low
\* five bits); a division or a remainder by zero, and MinI32 by -1, panic in
\* every build; the bits a left shift pushes out are dropped in every build.
ElemOp(f, a, b) ==
    CASE f = "add" -> IF AddOverflows(a, b) THEN Overflowed(WrappingAdd(a, b)) ELSE Ok(a + b)
      [] f = "sub" -> IF SubOverflows(a, b) THEN Overflowed(WrappingSub(a, b)) ELSE Ok(a - b)
      [] f = "mul" -> IF MulOverflows(a, b) THEN Overflowed(WrappingMul(a, b)) ELSE Ok(a * b)
      [] f = "div" -> IF b = 0 \/ (a = MinI32 /\ b = AllOnes) THEN Panic ELSE Ok(TruncDiv(a, b))
      [] f = "rem" -> IF b = 0 \/ (a = MinI32 /\ b = AllOnes) THEN Panic ELSE Ok(TruncRem(a, b))
      [] f \in {"bitand", "bitor", "bitxor"} -> Ok(Bitwise(f, a, b))
      [] f = "shl" -> IF b < 0 \/ b >= Bits
                      THEN Overflowed(ShlBits(a, b % Bits))
                      ELSE Ok(ShlBits(a, b))
      [] f = "shr" -> IF b < 0 \/ b >= Bits
                      THEN Overflowed(ShrBits(a, b % Bits))
                      ELSE Ok(ShrBits(a, b))

\* A plausible slip: the right iterator is one element ahead.
ZipSkipping(a, b) == [k \in 1 .. Min(Len(a), Len(b) - 1) |-> <<a[k], b[k + 1]>>]

\* a.zip(b): the pairs of the two iterators, as many as the shorter one gives.
Zip(a, b) == [k \in 1 .. Min(Len(a), Len(b)) |-> <<a[k], b[k]>>]

\* A plausible slip: the scalar is the left argument.
WithScalarLeft(a, rhs) == [k \in 1 .. Len(a) |-> <<rhs, a[k]>>]

\* The arguments of the closure |a| $op::$fn(a, rhs), for each item a.
WithScalar(a, rhs) == [k \in 1 .. Len(a) |-> <<a[k], rhs>>]

\* .map(|(a, b)| $op::$fn(a, b)), consumed to its end: the values, or the panic of
\* the first pair the operator panics on.
RECURSIVE Map(_, _)
Map(f, pairs) ==
    IF pairs = <<>>
    THEN Ok(<<>>)
    ELSE LET e == ElemOp(f, Head(pairs)[1], Head(pairs)[2])
         IN  IF e.kind # "ok"
             THEN Panic
             ELSE LET rest == Map(f, Tail(pairs))
                  IN  IF rest.kind = "ok" THEN Ok(<<e.val>> \o rest.val) ELSE Panic

\* fn $fn(self, rhs: Self) -> Self::Output
op_math_binary(f, self, rhs) ==
    LET items == Map(f, Zip(into_iter(self), into_iter(rhs)))
    IN  IF items.kind = "ok" THEN Ok(from_iter(self.R, self.C, items.val)) ELSE Panic

\* fn $fn(self, rhs: T) -> Self::Output
op_math_binary_scalar(f, self, rhs) ==
    LET items == Map(f, WithScalar(into_iter(self), rhs))
    IN  IF items.kind = "ok" THEN Ok(from_iter(self.R, self.C, items.val)) ELSE Panic

\* The operator families of op_math_unary!.
UnaryOps == {"neg", "not"}

\* $op::$fn(a) on i32: -a, which leaves i32 for MinI32, and !a, the complement
\* of every bit.
ElemOp1(f, a) ==
    IF f = "neg"
    THEN IF a = MinI32 THEN Overflowed(MinI32) ELSE Ok(0 - a)
    ELSE Ok(AllOnes - a)

\* .map(|a| $op::$fn(a)), consumed to its end: the values, or the panic of the
\* first item the operator panics on.
RECURSIVE Map1(_, _)
Map1(f, items) ==
    IF items = <<>>
    THEN Ok(<<>>)
    ELSE LET e == ElemOp1(f, Head(items))
         IN  IF e.kind # "ok"
             THEN Panic
             ELSE LET rest == Map1(f, Tail(items))
                  IN  IF rest.kind = "ok" THEN Ok(<<e.val>> \o rest.val) ELSE Panic

\* fn $fn(self) -> Self::Output
op_math_unary(f, self) ==
    LET items == Map1(f, into_iter(self))
    IN  IF items.kind = "ok" THEN Ok(from_iter(self.R, self.C, items.val)) ELSE Panic

\* self.data.iter_mut().zip(items).for_each(|(a, b)| $op::$fn(a, b)), from cell k
\* on: each cell is assigned what the operator gives; a panic leaves the cells
\* already assigned.
RECURSIVE AssignLoop(_, _, _, _)
AssignLoop(f, self, items, k) ==
    IF k >= Min(Len(self.data), Len(items))
    THEN [kind |-> "ok", self |-> self]
    ELSE LET e == ElemOp(f, self.data[k + 1], items[k + 1])
         IN  IF e.kind = "ok"
             THEN AssignLoop(f, [self EXCEPT !.data[k + 1] = e.val], items, k + 1)
             ELSE [kind |-> "panic", self |-> self]

\* A plausible slip: the operator is applied with its operands the other way round.
op_math_assign_reversed(f, self, rhs) ==
    LET r == AssignLoop(f, rhs, into_iter(self), 0)
    IN  [kind |-> r.kind, self |-> r.self]

\* fn $fn(&mut self, rhs: Self): how the call ends and the receiver after it; the
\* loop consumes rhs, the callee's own value.
op_math_assign(f, self, rhs) ==
    LET r == AssignLoop(f, self, into_iter(rhs), 0)
    IN  [kind |-> r.kind, self |-> r.self]

\* fn $fn(&mut self, rhs: T)
op_math_assign_scalar(f, self, rhs) ==
    LET r == AssignLoop(f, self, [k \in 1 .. Len(self.data) |-> rhs], 0)
    IN  [kind |-> r.kind, self |-> r.self]

\* ---- compare ----

\* A plausible slip: any instead of all.
eq_any(self, other) ==
    LET pairs == Zip(self.data, other.data)
    IN  \E k \in DOMAIN pairs : pairs[k][1] = pairs[k][2]

\* self.data.iter().zip(other.data.iter()).all(|(a, b)| a == b)
eq(self, other) ==
    LET pairs == Zip(self.data, other.data)
    IN  \A k \in DOMAIN pairs : pairs[k][1] = pairs[k][2]

\* ---- the call specification: one call on a matrix the program holds ----

\* The scalars an operator is called with: the values of the matrices, and the
\* i32 values at which the operators change their behaviour: the ends of the
\* type, -1, the width of the type as a shift amount, and 2 as a divisor.
Scalars == Values \cup {MinI32, AllOnes, 2, Bits, MaxI32}

\* Matrices of i32 that hold such values.
EdgeMatrices ==
    {Mx(1, 2, <<MinI32, MaxI32>>), Mx(1, 2, <<AllOnes, Bits>>), Mx(1, 2, <<AllOnes, 2>>)}

\* impl<T: Float, ...>: shape, reshape, transpose and multiply exist for the
\* matrices of floats, which the matrices of the edge values of i32 are not.
Float(mm) == mm \notin EdgeMatrices

Init ==
    /\ m \in Matrices \cup ExampleMatrices \cup EdgeMatrices
    /\ old = m
    /\ op = "init"
    /\ arg = [none |-> 0]
    /\ ret = NoRet
    /\ mem = <<>>
    /\ arr = NoArray
    /\ was = NoWas
    /\ checks \in BOOLEAN

\* m[i], for offsets up to one past the last cell and beyond.
IndexRead ==
    /\ op = "init"
    /\ \E i \in 0 .. Cells(m) + 1 :
         /\ op' = "index"
         /\ arg' = [i |-> i]
         /\ ret' = index(m, i)
         /\ UNCHANGED <<m, old>>
         /\ UNCHANGED <<exportVars, checks>>

\* m[i] = v
IndexWrite ==
    /\ op = "init"
    /\ \E i \in 0 .. Cells(m) + 1, v \in Values :
         /\ op' = "index_mut"
         /\ arg' = [i |-> i, v |-> v]
         /\ ret' = index(m, i)
         /\ m' = IF ret'.kind = "ok" THEN Store(m, ret', v) ELSE m
         /\ old' = m
         /\ UNCHANGED <<exportVars, checks>>

\* Coordinates at which R * index.0 + index.1 leaves usize: 2^62, 2^63 and
\* 2^64 - 1.
WideCoordinates ==
    {[k \in 1 .. USizeLimbs |-> IF k = USizeLimbs THEN LimbBase \div 4 ELSE 0],
     [k \in 1 .. USizeLimbs |-> IF k = USizeLimbs THEN LimbBase \div 2 ELSE 0],
     [k \in 1 .. USizeLimbs |-> LimbBase - 1]}

\* The coordinates of the 2-D calls on a dimension n: up to one past the last,
\* and the wide ones.
Coordinates(n) == {USize(k) : k \in 0 .. n} \cup WideCoordinates

\* m[(row, col)]
Index2Read ==
    /\ op = "init"
    /\ \E row \in Coordinates(m.R), col \in Coordinates(m.C) :
         /\ op' = "index2"
         /\ arg' = [row |-> row, col |-> col]
         /\ ret' = index2(m, row, col)
         /\ UNCHANGED <<m, old>>
         /\ UNCHANGED <<exportVars, checks>>

\* m[(row, col)] = v
Index2Write ==
    /\ op = "init"
    /\ \E row \in Coordinates(m.R), col \in Coordinates(m.C), v \in Values :
         /\ op' = "index2_mut"
         /\ arg' = [row |-> row, col |-> col, v |-> v]
         /\ ret' = index2(m, row, col)
         /\ m' = IF ret'.kind = "ok" THEN Store(m, ret', v) ELSE m
         /\ old' = m
         /\ UNCHANGED <<exportVars, checks>>

\* m.transpose()
Transpose ==
    /\ op = "init"
    /\ Float(m)
    /\ \E junk \in JunkLeft(m) :
         /\ op' = "transpose"
         /\ arg' = [none |-> 0]
         /\ ret' = transpose(m, junk)
         /\ UNCHANGED <<m, old>>
         /\ UNCHANGED <<exportVars, checks>>

\* The target shapes of test::algebra next to the enumerated ones.
ReshapeShapes == Shapes \cup {<<4, 2>>, <<2, 4>>}

\* m.reshape::<R_, C_>()
Reshape ==
    /\ op = "init"
    /\ Float(m)
    /\ \E s \in ReshapeShapes, junk \in Values :
         /\ op' = "reshape"
         /\ arg' = [R |-> s[1], C |-> s[2]]
         /\ ret' = reshape(m, s[1], s[2], junk)
         /\ UNCHANGED <<m, old>>
         /\ UNCHANGED <<exportVars, checks>>

\* The right operands tried with the left operand mm: they have as many rows as mm
\* has columns (the type MX<T, C, C_>). The literals of test::algebra are multiplied
\* with each other, an enumerated matrix with the enumerated matrices of at most
\* MaxMulCells cells.
MultiplyOperands(mm) ==
    IF mm \in ExampleMatrices
    THEN {x \in ExampleMatrices : x.R = mm.C}
    ELSE IF Cells(mm) <= MaxMulCells
         THEN UNION {{Mx(mm.C, c, d) : d \in SeqsOfLen(mm.C * c)} :
                        c \in {c \in 1 .. MaxMulCells : mm.C * c <= MaxMulCells}}
         ELSE {}

\* m.multiply(&rhs)
Multiply ==
    /\ op = "init"
    /\ Float(m)
    /\ \E rhs \in MultiplyOperands(m) :
         /\ op' = "multiply"
         /\ arg' = [rhs |-> rhs]
         /\ ret' = multiply(m, rhs)
         /\ UNCHANGED <<m, old>>
         /\ UNCHANGED <<exportVars, checks>>

\* m.transpose().transpose(): the second call is made on what the first
\* returned, each with its own uninitialised res.
TransposeTwice ==
    /\ op = "init"
    /\ Float(m)
    /\ \E junk \in JunkLeft(m) :
         LET once == transpose(m, junk)
         IN  \E junk2 \in (IF once.kind = "ok" THEN JunkLeft(once.val) ELSE {junk}) :
                /\ op' = "transpose_twice"
                /\ arg' = [none |-> 0]
                /\ ret' = IF once.kind = "ok" THEN transpose(once.val, junk2) ELSE Panic
         /\ UNCHANGED <<m, old>>
         /\ UNCHANGED <<exportVars, checks>>

One == 1

\* The n x n matrix of ones on the diagonal and zeros elsewhere, as a program
\* writes it down.
Identity(n) ==
    Mx(n, n, [k \in 1 .. n * n |-> IF (k - 1) \div n = (k - 1) % n THEN One ELSE Zero])

\* m.multiply(&identity), for every m.
MultiplyIdentity ==
    /\ op = "init"
    /\ Float(m)
    /\ op' = "multiply_identity"
    /\ arg' = [rhs |-> Identity(m.C)]
    /\ ret' = multiply(m, Identity(m.C))
    /\ UNCHANGED <<m, old>>
    /\ UNCHANGED <<exportVars, checks>>

\* m.reshape::<R_, C_>().reshape::<R, C>(), for the shapes the first call accepts.
ReshapeBack ==
    /\ op = "init"
    /\ Float(m)
    /\ \E s \in ReshapeShapes, junk \in Values :
         /\ ReshapeBound(m.R, m.C, s[1], s[2])
         /\ op' = "reshape_back"
         /\ arg' = [R |-> s[1], C |-> s[2]]
         /\ ret' = LET there == reshape(m, s[1], s[2], junk)
                   IN  IF there.kind = "ok"
                       THEN reshape(there.val, m.R, m.C, junk)
                       ELSE CompileError
         /\ UNCHANGED <<m, old>>
         /\ UNCHANGED <<exportVars, checks>>

\* The right operands of the type of mm tried with it: every matrix of its shape
\* when mm has MaxOpCells cells at most, its own copy when it is a literal of the
\* tests.
SameShape(mm) ==
    IF Cells(mm) <= MaxOpCells
    THEN {Mx(mm.R, mm.C, d) : d \in SeqsOfLen(Cells(mm))}
            \cup {x \in EdgeMatrices : x.R = mm.R /\ x.C = mm.C}
    ELSE {x \in ExampleMatrices : x = mm}

\* m op rhs, for a matrix rhs.
Binary ==
    /\ op = "init"
    /\ \E f \in Ops, rhs \in SameShape(m) :
         /\ op' = "binary"
         /\ arg' = [f |-> f, rhs |-> rhs]
         /\ ret' = op_math_binary(f, m, rhs)
         /\ UNCHANGED <<m, old>>
         /\ UNCHANGED <<exportVars, checks>>

\* m op rhs, for a scalar rhs.
BinaryScalar ==
    /\ op = "init"
    /\ SameShape(m) # {}
    /\ \E f \in Ops, rhs \in Scalars :
         /\ op' = "binary_scalar"
         /\ arg' = [f |-> f, rhs |-> rhs]
         /\ ret' = op_math_binary_scalar(f, m, rhs)
         /\ UNCHANGED <<m, old>>
         /\ UNCHANGED <<exportVars, checks>>

\* m op= rhs, for a matrix rhs: ret tells how the call ended.
Assign ==
    /\ op = "init"
    /\ \E f \in Ops, rhs \in SameShape(m) :
         LET r == op_math_assign(f, m, rhs)
         IN  /\ op' = "assign"
             /\ arg' = [f |-> f, rhs |-> rhs]
             /\ ret' = [kind |-> r.kind]
             /\ m' = r.self
             /\ old' = m
             /\ UNCHANGED <<exportVars, checks>>

\* m op= rhs, for a scalar rhs.
AssignScalar ==
    /\ op = "init"
    /\ SameShape(m) # {}
    /\ \E f \in Ops, rhs \in Scalars :
         LET r == op_math_assign_scalar(f, m, rhs)
         IN  /\ op' = "assign_scalar"
             /\ arg' = [f |-> f, rhs |-> rhs]
             /\ ret' = [kind |-> r.kind]
             /\ m' = r.self
             /\ old' = m
             /\ UNCHANGED <<exportVars, checks>>

\* m == rhs
Eq ==
    /\ op = "init"
    /\ \E rhs \in SameShape(m) :
         /\ op' = "eq"
         /\ arg' = [rhs |-> rhs]
         /\ ret' = Ok(eq(m, rhs))
         /\ UNCHANGED <<m, old>>
         /\ UNCHANGED <<exportVars, checks>>

\* op m, for the unary operators.
Unary ==
    /\ op = "init"
    /\ \E f \in UnaryOps :
         /\ op' = "unary"
         /\ arg' = [f |-> f]
         /\ ret' = op_math_unary(f, m)
         /\ UNCHANGED <<m, old>>
         /\ UNCHANGED <<exportVars, checks>>

\* MX::<T, R_, C_>::from_iter(m.into_iter()), as in test::iter.
IntoFromIter ==
    /\ op = "init"
    /\ SameShape(m) # {}
    /\ \E s \in IterShapes :
         /\ op' = "into_from_iter"
         /\ arg' = [R |-> s[1], C |-> s[2]]
         /\ ret' = Ok(from_iter(s[1], s[2], into_iter(m)))
         /\ UNCHANGED <<m, old>>
         /\ UNCHANGED <<exportVars, checks>>

Next ==
    \/ IndexRead
    \/ IndexWrite
    \/ Index2Read
    \/ Index2Write
    \/ Transpose
    \/ Reshape
    \/ Multiply
    \/ TransposeTwice
    \/ MultiplyIdentity
    \/ ReshapeBack
    \/ Binary
    \/ BinaryScalar
    \/ Assign
    \/ AssignScalar
    \/ Eq
    \/ Unary
    \/ IntoFromIter

Spec == Init /\ [][Next]_vars

\* The receivers of the loop specification and of the storage specification.
PureReceivers == {mm \in Matrices : Cells(mm) <= MaxOpCells} \cup ExampleMatrices

\* ---- the loop specification: one call, one element step at a time ----

\* Option::None of an iterator's next().
None == [kind |-> "end"]

\* The answer to call number k, from 0, of next() on an input of from_iter:
\* m.into_iter(), which ends; m.into_iter().cycle(), which never does; or the
\* zip and map of an elementwise operator, which applies the operator when the
\* item is asked for.
IterNext(it, k) ==
    CASE it.kind = "array" -> IF k < Len(it.items) THEN Ok(it.items[k + 1]) ELSE None
      [] it.kind = "cycle" -> Ok(it.items[(k % Len(it.items)) + 1])
      [] it.kind = "map" ->
            IF k < Len(it.pairs)
            THEN ElemOp(it.f, it.pairs[k + 1][1], it.pairs[k + 1][2])
            ELSE None

\* A plausible slip: the input is consumed without .take(R * C).
TakeNextUnlimited(n, k, inner) == inner

\* Take::next of .take(n), after k items passed: the input is asked only while
\* fewer than n items have passed.
TakeNext(n, k, inner) == IF k < n THEN inner ELSE None

\* The right operands of the loop specification: the copy of mm and the matrices
\* of its shape with one value in every cell.
LoopOperands(mm) == {mm} \cup {Filled(mm.R, mm.C, v) : v \in Values}

\* The right factors of the loop specification: the identity matrix, and for a
\* literal of the tests the literal it is multiplied with.
LoopFactors(mm) == {Identity(mm.C)} \cup {x \in ExampleMatrices : mm \in ExampleMatrices /\ x.R = mm.C}

\* MX::<T, R_, C_>::from_iter(input): res is the default-filled matrix.
StartFromIter ==
    /\ op = "init"
    /\ \E s \in IterShapes, kind \in {"array", "cycle"} :
         /\ op' = "loop"
         /\ arg' = [call |-> "from_iter", steps |-> 0, R |-> s[1], C |-> s[2], k |-> 0, pulled |-> 0,
                    it |-> [kind |-> kind, items |-> into_iter(m)]]
         /\ ret' = Ok(Filled(s[1], s[2], Default))
         /\ UNCHANGED <<m, old>>
         /\ UNCHANGED <<exportVars, checks>>

\* m op rhs for a matrix rhs: from_iter over the zip and map of the operands.
StartBinary ==
    /\ op = "init"
    /\ \E f \in Ops, rhs \in LoopOperands(m) :
         /\ op' = "loop"
         /\ arg' = [call |-> "binary", steps |-> 0, R |-> m.R, C |-> m.C, k |-> 0, pulled |-> 0,
                    it |-> [kind |-> "map", f |-> f, pairs |-> Zip(into_iter(m), into_iter(rhs))],
                    rhs |-> rhs]
         /\ ret' = Ok(Filled(m.R, m.C, Default))
         /\ UNCHANGED <<m, old>>
         /\ UNCHANGED <<exportVars, checks>>

\* m op rhs for a scalar rhs: from_iter over the map of the receiver.
StartBinaryScalar ==
    /\ op = "init"
    /\ \E f \in Ops, rhs \in Scalars :
         /\ op' = "loop"
         /\ arg' = [call |-> "binary_scalar", steps |-> 0, R |-> m.R, C |-> m.C, k |-> 0, pulled |-> 0,
                    it |-> [kind |-> "map", f |-> f, pairs |-> WithScalar(into_iter(m), rhs)],
                    scalar |-> rhs]
         /\ ret' = Ok(Filled(m.R, m.C, Default))
         /\ UNCHANGED <<m, old>>
         /\ UNCHANGED <<exportVars, checks>>

\* One turn of iter.enumerate().take(R * C).for_each(|(i, v)| res.data[i] = v): an
\* item passes and is stored, or the input ends and from_iter returns res, or
\* the operator or the store panics.
StepFromIter ==
    /\ op = "loop"
    /\ arg.call \in {"from_iter", "binary", "binary_scalar"}
    /\ LET nx == TakeNext(arg.R * arg.C, arg.k, IterNext(arg.it, arg.k))
           cell == ArrayRef(ret.val.data, arg.k)
       IN  CASE nx.kind = "end" ->
                  /\ op' = "returned"
                  /\ UNCHANGED <<arg, ret>>
             [] nx.kind = "panic" ->
                  /\ op' = "returned"
                  /\ ret' = Panic
                  /\ UNCHANGED arg
             [] nx.kind = "ok" /\ cell.kind = "ok" ->
                  /\ op' = "loop"
                  /\ ret' = Ok(Store(ret.val, cell, nx.val))
                  /\ arg' = [arg EXCEPT !.k = @ + 1, !.pulled = @ + 1, !.steps = @ + 1]
             [] nx.kind = "ok" /\ cell.kind # "ok" ->
                  /\ op' = "returned"
                  /\ ret' = Panic
                  /\ arg' = [arg EXCEPT !.pulled = @ + 1]
    /\ UNCHANGED <<m, old>>
    /\ UNCHANGED <<exportVars, checks>>

\* m op= rhs for a matrix rhs.
StartAssign ==
    /\ op = "init"
    /\ \E f \in Ops, rhs \in LoopOperands(m) :
         /\ op' = "loop"
         /\ arg' = [call |-> "assign", steps |-> 0, k |-> 0, f |-> f, rhs |-> rhs,
                    items |-> into_iter(rhs)]
         /\ ret' = [kind |-> "running"]
         /\ UNCHANGED <<m, old>>
         /\ UNCHANGED <<exportVars, checks>>

\* One turn of self.data.iter_mut().zip(rhs).for_each(|(a, b)| $op::$fn(a, b)).
StepAssign ==
    /\ op = "loop"
    /\ arg.call = "assign"
    /\ IF arg.k < Min(Len(m.data), Len(arg.items))
       THEN LET e == ElemOp(arg.f, m.data[arg.k + 1], arg.items[arg.k + 1])
            IN  IF e.kind = "ok"
                THEN /\ op' = "loop"
                     /\ m' = [m EXCEPT !.data[arg.k + 1] = e.val]
                     /\ arg' = [arg EXCEPT !.k = @ + 1, !.steps = @ + 1]
                     /\ UNCHANGED ret
                ELSE /\ op' = "returned"
                     /\ ret' = [kind |-> "panic"]
                     /\ UNCHANGED <<m, arg>>
       ELSE /\ op' = "returned"
            /\ ret' = [kind |-> "ok"]
            /\ UNCHANGED <<m, arg>>
    /\ UNCHANGED old
    /\ UNCHANGED <<exportVars, checks>>

\* m.transpose(): res is the uninitialised C x R matrix.
StartTranspose ==
    /\ op = "init"
    /\ \E junk \in Junk(Cells(m)) :
         /\ op' = "loop"
         /\ arg' = [call |-> "transpose", steps |-> 0, i |-> 0, j |-> 0, junk |-> junk]
         /\ ret' = Ok(Uninit(m.C, m.R, junk))
         /\ UNCHANGED <<m, old>>
         /\ UNCHANGED <<exportVars, checks>>

\* One turn of for i in 0..R { for j in 0..C { res[R * j + i] = self[C * i + j] } },
\* or the return of res after the last one.
StepTranspose ==
    /\ op = "loop"
    /\ arg.call = "transpose"
    /\ IF arg.i < m.R
       THEN LET src == index(m, TransposeSrc(m, arg.i, arg.j))
                dst == index(ret.val, TransposeDst(m, arg.i, arg.j))
                last == arg.j + 1 >= m.C
            IN  IF src.kind = "ok" /\ dst.kind = "ok"
                THEN /\ op' = "loop"
                     /\ ret' = Ok(Store(ret.val, dst, src.val))
                     /\ arg' = [arg EXCEPT !.i = IF last THEN @ + 1 ELSE @,
                                           !.j = IF last THEN 0 ELSE @ + 1,
                                           !.steps = @ + 1]
                ELSE /\ op' = "returned"
                     /\ ret' = Panic
                     /\ UNCHANGED arg
       ELSE /\ op' = "returned"
            /\ UNCHANGED <<arg, ret>>
    /\ UNCHANGED <<m, old>>
    /\ UNCHANGED <<exportVars, checks>>

\* m.multiply(&rhs): res is the R x C_ matrix of zeros.
StartMultiply ==
    /\ op = "init"
    /\ \E rhs \in LoopFactors(m) :
         /\ op' = "loop"
         /\ arg' = [call |-> "multiply", steps |-> 0, i |-> 0, j |-> 0, k |-> 0, rhs |-> rhs]
         /\ ret' = Ok(Filled(m.R, rhs.C, Zero))
         /\ UNCHANGED <<m, old>>
         /\ UNCHANGED <<exportVars, checks>>

\* One turn of the innermost loop of multiply, or the return of res after the
\* last one.
StepMultiply ==
    /\ op = "loop"
    /\ arg.call = "multiply"
    /\ IF arg.i < m.R
       THEN LET acc == index(ret.val, MultiplyDst(m, arg.rhs, arg.i, arg.j))
                a == index(m, MultiplyLhs(m, arg.rhs, arg.i, arg.k))
                b == index(arg.rhs, MultiplyRhs(m, arg.rhs, arg.k, arg.j))
                lastk == arg.k + 1 >= m.C
                lastj == arg.j + 1 >= arg.rhs.C
            IN  IF acc.kind = "ok" /\ a.kind = "ok" /\ b.kind = "ok"
                THEN /\ op' = "loop"
                     /\ ret' = Ok(Store(ret.val, acc, acc.val + a.val * b.val))
                     /\ arg' = [arg EXCEPT !.i = IF lastk /\ lastj THEN @ + 1 ELSE @,
                                           !.j = IF lastk THEN (IF lastj THEN 0 ELSE @ + 1) ELSE @,
                                           !.k = IF lastk THEN 0 ELSE @ + 1,
                                           !.steps = @ + 1]
                ELSE /\ op' = "returned"
                     /\ ret' = Panic
                     /\ UNCHANGED arg
       ELSE /\ op' = "returned"
            /\ UNCHANGED <<arg, ret>>
    /\ UNCHANGED <<m, old>>
    /\ UNCHANGED <<exportVars, checks>>

InitLoop ==
    /\ m \in PureReceivers
    /\ old = m
    /\ op = "init"
    /\ arg = [none |-> 0]
    /\ ret = NoRet
    /\ mem = <<>>
    /\ arr = NoArray
    /\ was = NoWas
    /\ checks \in BOOLEAN

NextLoop ==
    \/ StartFromIter
    \/ StartBinary
    \/ StartBinaryScalar
    \/ StepFromIter
    \/ StartAssign
    \/ StepAssign
    \/ StartTranspose
    \/ StepTranspose
    \/ StartMultiply
    \/ StepMultiply

\* The program is one thread that runs: a step that can be taken is taken.
SpecLoop == InitLoop /\ [][NextLoop]_vars /\ WF_vars(NextLoop)

\* ---- the storage specification: the places that hold the caller's values ----

\* The caller holds a left operand a, a right operand b and, after a call that
\* returns a matrix, a result r, each in a place of its own. MX keeps its cells
\* inline (data: [T; R * C]), so the place of a matrix is its R * C cells and the
\* place of a scalar is one cell: mem[at] is the sequence of the cells of the
\* place at the address at. A pointer to a place is the record [R, C, at] of the
\* shape of the type it points to and the address. m is the pointer to a, arg.rhs
\* the pointer to b, ret.val the pointer to r, and was.mem holds the places as
\* they were before the most recent step.

\* *p: the value read through the pointer p.
Load(memory, p) == Mx(p.R, p.C, memory[p.at])

\* A plausible alternative: a copy is a copy of the pointer and the cells stay
\* where they are, as for a type that holds its cells behind a reference.
CopyShared(memory, p) == [mem |-> memory, ptr |-> p]

\* #[derive(Copy, Clone)] of a struct that holds [T; R * C]: a copy (let b = a, an
\* argument passed by value) is a new place with the cells of the original.
Copy(memory, p) ==
    [mem |-> Append(memory, memory[p.at]), ptr |-> [p EXCEPT !.at = Len(memory) + 1]]

\* let r = <call>: the value v that the call returned is moved into a new place.
Place(memory, v) ==
    [mem |-> Append(memory, v.data), ptr |-> [R |-> v.R, C |-> v.C, at |-> Len(memory) + 1]]

\* A plausible alternative: reshape borrows the receiver and returns the cast
\* pointer, a view of the cells of the receiver under the new shape.
reshape_view(memory, p, r_, c_, junk) ==
    IF ReshapeBound(p.R, p.C, r_, c_)
    THEN Ok([mem |-> memory, ptr |-> [R |-> r_, C |-> c_, at |-> p.at]])
    ELSE CompileError

\* let r = a.reshape::<R_, C_>(): self is the callee's copy of the receiver, the
\* value is read out of the cast pointer to that copy, and what was read is
\* returned into a place of the caller; the place of the callee's copy ends with
\* the call.
reshape_returned(memory, p, r_, c_, junk) ==
    LET own == Copy(memory, p)
        v == reshape(Load(own.mem, own.ptr), r_, c_, junk)
    IN  IF v.kind = "ok" THEN Ok(Place(memory, v.val)) ELSE v

\* let b = a, let b = <a matrix that a call on a takes>, or let b = <a scalar>: the
\* matrices are those of the shape of a with one value in every cell or with the
\* edge values of i32, and the right factors of a.
Let ==
    /\ op = "init"
    /\ \E b \in {[kind |-> "copy", v |-> Load(mem, m)]}
                \cup {[kind |-> "matrix", v |-> x] :
                        x \in LoopOperands(Load(mem, m)) \cup LoopFactors(Load(mem, m))
                                \cup {e \in EdgeMatrices : e.R = m.R /\ e.C = m.C}}
                \cup {[kind |-> "scalar", v |-> Mx(1, 1, <<x>>)] : x \in Scalars} :
         LET placed == IF b.kind = "copy" THEN Copy(mem, m) ELSE Place(mem, b.v)
         IN  /\ op' = "let"
             /\ arg' = [kind |-> b.kind, rhs |-> placed.ptr]
             /\ mem' = placed.mem
             /\ was' = [arr |-> <<>>, mem |-> mem]
             /\ UNCHANGED <<m, old, ret, arr, checks>>

\* a op= b: rhs is passed by value, the callee's copy of b, and the loop assigns
\* through iter_mut of the cells of a; the place of the callee's copy ends with
\* the call.
StoreAssign ==
    /\ op = "let"
    /\ arg.kind = "scalar" \/ (arg.rhs.R = m.R /\ arg.rhs.C = m.C)
    /\ \E f \in Ops :
         LET own == Copy(mem, arg.rhs)
             r == IF arg.kind = "scalar"
                  THEN op_math_assign_scalar(f, Load(own.mem, m), own.mem[own.ptr.at][1])
                  ELSE op_math_assign(f, Load(own.mem, m), Load(own.mem, own.ptr))
         IN  /\ op' = "assign"
             /\ arg' = [kind |-> arg.kind, rhs |-> arg.rhs, f |-> f]
             /\ ret' = [kind |-> r.kind]
             /\ mem' = [mem EXCEPT ![m.at] = r.self.data]
             /\ was' = [arr |-> <<>>, mem |-> mem]
             /\ UNCHANGED <<m, old, arr, checks>>

\* let r = <a call on a, with b where the call takes a right operand>, for the
\* calls that are neither an in-place operator nor an index-write. transpose,
\* multiply and eq read their operands through shared references, the other
\* calls read their own copies; transpose, reshape and multiply are there for a
\* float element type, which the edge values of i32 are not. What a call returns
\* is moved into a new place, but for the bool of eq.
StoreCall ==
    /\ op = "let"
    /\ \E name \in Ops \cup UnaryOps
                    \cup {"transpose", "reshape", "multiply", "eq", "into_from_iter"} :
         LET scalar == arg.kind = "scalar"
             same == ~scalar /\ arg.rhs.R = m.R /\ arg.rhs.C = m.C
             float == \A k \in DOMAIN mem[arg.rhs.at] : mem[arg.rhs.at][k] \in Values
             borrowed == name \in {"transpose", "multiply", "eq"}
             self == IF borrowed THEN Load(mem, m) ELSE Load(Copy(mem, m).mem, Copy(mem, m).ptr)
             own == IF borrowed THEN Load(mem, arg.rhs)
                    ELSE Load(Copy(mem, arg.rhs).mem, Copy(mem, arg.rhs).ptr)
             rhs == IF scalar THEN own.data[1] ELSE own
         IN  /\ CASE name \in Ops -> scalar \/ same
                  [] name = "eq" -> same
                  [] name = "multiply" -> ~scalar /\ arg.rhs.R = m.C /\ float
                  [] name \in {"transpose", "reshape"} -> float
                  [] OTHER -> TRUE
             /\ \E s \in (IF name = "reshape" THEN ReshapeShapes
                          ELSE IF name = "into_from_iter" THEN IterShapes
                          ELSE {<<m.R, m.C>>}),
                   junk \in (IF name = "transpose" THEN JunkLeft(self)
                             ELSE IF name = "reshape" THEN {<<g>> : g \in Values}
                             ELSE {<<Default>>}) :
                  LET v == CASE name \in Ops ->
                                   IF scalar THEN op_math_binary_scalar(name, self, rhs)
                                   ELSE op_math_binary(name, self, rhs)
                             [] name \in UnaryOps -> op_math_unary(name, self)
                             [] name = "transpose" -> transpose(self, junk)
                             [] name = "multiply" -> multiply(self, rhs)
                             [] name = "eq" -> Ok(eq(self, rhs))
                             [] name = "into_from_iter" ->
                                   Ok(from_iter(s[1], s[2], into_iter(self)))
                             [] OTHER -> NoRet
                      out == IF name = "reshape"
                             THEN reshape_returned(mem, m, s[1], s[2], junk[1])
                             ELSE IF v.kind = "ok" /\ name # "eq" THEN Ok(Place(mem, v.val))
                             ELSE v
                      moved == out.kind = "ok" /\ name # "eq"
                  IN  /\ op' = "call"
                      /\ arg' = [kind |-> arg.kind, rhs |-> arg.rhs, call |-> name,
                                 R |-> s[1], C |-> s[2]]
                      /\ ret' = IF moved THEN Ok(out.val.ptr) ELSE out
                      /\ mem' = IF moved THEN out.val.mem ELSE mem
                      /\ was' = [arr |-> <<>>, mem |-> mem]
                      /\ UNCHANGED <<m, old, arr, checks>>

\* r[i] = r[i] + 1, on the matrix the call returned, where the sum does not panic.
WriteResult ==
    /\ op = "call"
    /\ ret.kind = "ok"
    /\ arg.call # "eq"
    /\ \E i \in 0 .. Cells(ret.val) - 1 :
         LET r == index(Load(mem, ret.val), i)
             v == ElemOp("add", r.val, 1)
         IN  /\ v.kind = "ok"
             /\ op' = "write_result"
             /\ mem' = [mem EXCEPT ![ret.val.at] = Store(Load(mem, ret.val), r, v.val).data]
             /\ was' = [arr |-> <<>>, mem |-> mem]
             /\ UNCHANGED <<m, old, arg, ret, arr, checks>>

\* a[i] = a[i] + 1 or b[i] = b[i] + 1 (b = b + 1 for a scalar), on an operand of
\* the call while its result is held, where the sum does not panic.
WriteOperand ==
    /\ op = "call"
    /\ ret.kind = "ok"
    /\ arg.call # "eq"
    /\ \E p \in {m, arg.rhs} :
         \E i \in 0 .. Cells(p) - 1 :
            LET r == index(Load(mem, p), i)
                v == ElemOp("add", r.val, 1)
            IN  /\ v.kind = "ok"
                /\ op' = "write_operand"
                /\ mem' = [mem EXCEPT ![p.at] = Store(Load(mem, p), r, v.val).data]
                /\ was' = [arr |-> <<>>, mem |-> mem]
                /\ UNCHANGED <<m, old, arg, ret, arr, checks>>

\* let mut a = <a matrix>: a is the first place.
InitStore ==
    /\ \E a \in PureReceivers :
         /\ mem = <<a.data>>
         /\ m = [R |-> a.R, C |-> a.C, at |-> 1]
    /\ old = m
    /\ op = "init"
    /\ arg = [none |-> 0]
    /\ ret = NoRet
    /\ arr = NoArray
    /\ was = NoWas
    /\ checks \in BOOLEAN

NextStore ==
    \/ Let
    \/ StoreAssign
    \/ StoreCall
    \/ WriteResult
    \/ WriteOperand

SpecStore == InitStore /\ [][NextStore]_vars

\* ---- the export specification: a matrix is handed to the browser ----

\* The matrix m is stored in the cells 0 .. Cells(m) - 1 of mem; the cells after it
\* are the stack of the functions called later.

\* What the consumer reads in the typed array a when the memory is memory: a view
\* made by subarray reads the memory, an array made by slice reads its own buffer.
ArrayContents(a, memory) ==
    IF a.kind = "view" THEN SubSeq(memory, a.begin + 1, a.begin + a.len) ELSE a.buf

\* $arr::new(&memory_buffer()).subarray(begin, end)
subarray(by, begin, end) ==
    [by |-> by, kind |-> "view", begin |-> begin, len |-> end - begin, buf |-> <<>>]

\* $arr::new(&memory_buffer()).slice(begin, end)
slice(by, memory, begin, end) ==
    [by |-> by, kind |-> "copy", begin |-> begin, len |-> end - begin,
     buf |-> SubSeq(memory, begin + 1, end)]

\* The memory after the temporary [data] was put at address p; the temporary is
\* dead when the let statement ends and nothing in Rust reads it, so the build may
\* or may not store the elements.
Temporary(memory, d, p, stored) ==
    [a \in 1 .. Len(memory) |->
        IF stored /\ a > p /\ a <= p + Len(d) THEN d[a - p] ELSE memory[a]]

\* The value of the matrix stored at the start of memory.
Held(mm, memory) == [mm EXCEPT !.data = SubSeq(memory, 1, Cells(mm))]

\* array::typed_f32(data) and its siblings: data is passed by value.
array_buffer(memory, d, p, stored) ==
    [mem |-> Temporary(memory, d, p, stored), arr |-> subarray("typed", p, p + Len(d))]

\* array::typed_f32_copy(data) and its siblings.
array_buffer_copy(memory, d, p, stored) ==
    [mem |-> Temporary(memory, d, p, stored),
     arr |-> slice("typed_copy", Temporary(memory, d, p, stored), p, p + Len(d))]

\* js::tav_f32(&data) and its siblings: data is passed by reference, at address p.
js_tav(memory, d, p) == [mem |-> memory, arr |-> subarray("tav", p, p + Len(d))]

\* js::tav_f32_cp(&data) and its siblings.
js_tav_copy(memory, d, p) == [mem |-> memory, arr |-> slice("tav_copy", memory, p, p + Len(d))]

Exported(name, e) ==
    /\ op' = name
    /\ mem' = e.mem
    /\ arr' = e.arr
    /\ was' = [arr |-> ArrayContents(e.arr, e.mem), mem |-> e.mem]
    /\ arg' = [begin |-> e.arr.begin]
    /\ UNCHANGED <<m, old, ret, checks>>

\* Where the stack of the called function can hold a copy of m.
TemporaryAddresses == Cells(m) .. MemSize - Cells(m)

TypedArray ==
    /\ arr.kind = "none"
    /\ \E p \in TemporaryAddresses, stored \in BOOLEAN :
         /\ Exported("typed", array_buffer(mem, m.data, p, stored))

TypedArrayCopy ==
    /\ arr.kind = "none"
    /\ \E p \in TemporaryAddresses, stored \in BOOLEAN :
         /\ Exported("typed_copy", array_buffer_copy(mem, m.data, p, stored))

TypedArrayView ==
    /\ arr.kind = "none"
    /\ Exported("tav", js_tav(mem, m.data, 0))

TypedArrayViewCopy ==
    /\ arr.kind = "none"
    /\ Exported("tav_copy", js_tav_copy(mem, m.data, 0))

\* After the export the program writes v to the memory cell a: to the matrix
\* itself, or to the stack of a later call.
MemWrite ==
    /\ arr.kind # "none"
    /\ \E a \in 0 .. MemSize - 1, v \in Values :
         /\ op' = "mem_write"
         /\ arg' = [a |-> a, v |-> v]
         /\ was' = [arr |-> ArrayContents(arr, mem), mem |-> mem]
         /\ mem' = [mem EXCEPT ![a + 1] = v]
         /\ m' = Held(m, mem')
         /\ UNCHANGED <<old, ret, arr, checks>>

\* After the export the consumer writes v to element k of the typed array.
ArrayWrite ==
    /\ arr.kind # "none"
    /\ \E k \in 0 .. arr.len - 1, v \in Values :
         /\ op' = "array_write"
         /\ arg' = [k |-> k, v |-> v]
         /\ was' = [arr |-> ArrayContents(arr, mem), mem |-> mem]
         /\ mem' = IF arr.kind = "view" THEN [mem EXCEPT ![arr.begin + k + 1] = v] ELSE mem
         /\ arr' = IF arr.kind = "view" THEN arr ELSE [arr EXCEPT !.buf[k + 1] = v]
         /\ m' = Held(m, mem')
         /\ UNCHANGED <<old, ret, checks>>

InitExport ==
    /\ m \in {mm \in Matrices : 2 * Cells(mm) <= MemSize}
    /\ old = m
    /\ op = "held"
    /\ arg = [none |-> 0]
    /\ ret = NoRet
    /\ mem \in {s \in SeqsOfLen(MemSize) : SubSeq(s, 1, Cells(m)) = m.data}
    /\ arr = NoArray
    /\ was = [arr |-> <<>>, mem |-> mem]
    /\ checks \in BOOLEAN

NextExport ==
    \/ TypedArray
    \/ TypedArrayCopy
    \/ TypedArrayView
    \/ TypedArrayViewCopy
    \/ MemWrite
    \/ ArrayWrite

SpecExport == InitExport /\ [][NextExport]_vars

\* ---- claims ----

\* The cell a is one of the cells the exported elements were read from.
InExported(a) == a >= arr.begin /\ a < arr.begin + arr.len

\* C3: a typed array exported by typed_f32 and its siblings is a copy: a later
\* write to the memory that held the matrix does not change what the array holds,
\* and a write through the array does not change the memory.
C3_ExportCopies ==
    arr.by = "typed" =>
        /\ op = "mem_write" /\ InExported(arg.a) => ArrayContents(arr, mem) = was.arr
        /\ op = "array_write" => mem = was.mem

\* C1: a 2-D read at a valid coordinate (i, j) returns the element the linear read
\* at i * C + j returns, for every shape.
C1_RowMajorRead ==
    op = "index2" /\ Below(arg.row, m.R) /\ Below(arg.col, m.C) =>
        LET lin == index(m, Number(arg.row) * m.C + Number(arg.col))
        IN  /\ ret.kind = lin.kind
            /\ ret.kind = "ok" => ret.at = lin.at /\ ret.val = lin.val

\* Two of the row-literals have different lengths.
UnequalRows(rows) == \E a, b \in DOMAIN rows : Len(rows[a]) # Len(rows[b])

\* C2: a nested-row literal with two rows of different lengths never yields a matrix.
C2_UnequalRowsRejected ==
    op = "matrix_rows" /\ UnequalRows(arg.rows) => ret.kind # "ok"

\* C4: a 2-D read or write with row >= R or col >= C panics, and the matrix keeps
\* all its elements.
C4_Index2OutOfRangePanics ==
    op \in {"index2", "index2_mut"} /\ (~Below(arg.row, old.R) \/ ~Below(arg.col, old.C)) =>
        ret.kind = "panic" /\ m = old

\* C5: a linear read or write at i addresses exactly data[i] when i < R * C, and
\* panics, leaving the matrix as it was, when i >= R * C.
C5_LinearIndex ==
    op \in {"index", "index_mut"} =>
        IF arg.i < Cells(old)
        THEN /\ ret.kind = "ok"
             /\ ret.at = arg.i
             /\ ret.val = old.data[arg.i + 1]
             /\ m = IF op = "index_mut" THEN [old EXCEPT !.data[arg.i + 1] = arg.v] ELSE old
        ELSE ret.kind = "panic" /\ m = old

\* A write to the last cell of a matrix with several rows and columns changed it.
C5_Witness ==
    /\ op = "index_mut"
    /\ old.R > 1 /\ old.C > old.R
    /\ arg.i = Cells(old) - 1
    /\ ret.kind = "ok"
    /\ m # old
    /\ m.data[Cells(old)] = arg.v

\* C6: transpose of an R x C matrix is the C x R matrix whose cell j * R + i is the
\* input's cell i * C + j; a 1 x D row vector becomes the D x 1 column vector with
\* the same flat data.
C6_Transpose ==
    op = "transpose" =>
        /\ ret.kind = "ok"
        /\ ret.val.R = m.C /\ ret.val.C = m.R
        /\ Len(ret.val.data) = m.R * m.C
        /\ \A i \in 0 .. m.R - 1, j \in 0 .. m.C - 1 :
               ret.val.data[j * m.R + i + 1] = m.data[i * m.C + j + 1]
        /\ m.R = 1 => ret.val = Mx(m.C, 1, m.data)

\* The 2 x 4 literal of the tests was transposed.
C6_Witness ==
    /\ op = "transpose"
    /\ m = ExampleA
    /\ ret.kind = "ok"
    /\ ret.val = Mx(4, 2, <<0, 4, 1, 5, 2, 6, 3, 7>>)

\* self(i, 0) * rhs(0, j) + ... + self(i, k - 1) * rhs(k - 1, j), summed from zero
\* in ascending order.
RECURSIVE RowByColumn(_, _, _, _, _)
RowByColumn(a, b, i, j, k) ==
    IF k = 0
    THEN 0
    ELSE RowByColumn(a, b, i, j, k - 1) + a.data[i * a.C + (k - 1) + 1] * b.data[(k - 1) * b.C + j + 1]

\* C7: multiply of an R x C matrix by a C x C2 matrix is the R x C2 matrix whose
\* cell i * C2 + j is the sum over k of self(i, k) * rhs(k, j); the 2 x 4 literal of
\* the tests times the 4 x 2 literal is [[28, 34], [76, 98]].
C7_Multiply ==
    op = "multiply" =>
        /\ ret.kind = "ok"
        /\ ret.val.R = m.R /\ ret.val.C = arg.rhs.C
        /\ Len(ret.val.data) = m.R * arg.rhs.C
        /\ \A i \in 0 .. m.R - 1, j \in 0 .. arg.rhs.C - 1 :
               ret.val.data[i * arg.rhs.C + j + 1] = RowByColumn(m, arg.rhs, i, j, m.C)
        /\ m = ExampleA /\ arg.rhs = ExampleB => ret.val.data = <<28, 34, 76, 98>>

\* The product of test::algebra was computed.
C7_Witness ==
    /\ op = "multiply"
    /\ m = ExampleA
    /\ arg.rhs = ExampleB
    /\ ret.kind = "ok"
    /\ ret.val = Mx(2, 2, <<28, 34, 76, 98>>)

\* C8: from_iter for the shape R x C puts the k-th input element at offset k for
\* every k below both the input length and R * C, the default value at the offsets
\* from the input length on, and ignores the input past R * C elements.
C8_FromIter ==
    op = "from_iter" =>
        /\ ret.kind = "ok"
        /\ ret.val = m
        /\ m.R = arg.R /\ m.C = arg.C
        /\ Len(m.data) = arg.R * arg.C
        /\ \A k \in 0 .. arg.R * arg.C - 1 :
               m.data[k + 1] = IF k < Len(arg.items) THEN arg.items[k + 1] ELSE Default

\* An input that is too short and does not hold the default value was default-filled.
C8_Witness ==
    /\ op = "from_iter"
    /\ arg.R = 2 /\ arg.C = 3
    /\ arg.items = <<1, 1>>
    /\ m.data = <<1, 1, 0, 0, 0, 0>>

\* C9: reshape to a shape with the same number of cells returns the same elements
\* at the same linear offsets, nothing reordered, changed, dropped or added.
C9_Reshape ==
    op = "reshape" /\ Cells(m) = arg.R * arg.C =>
        /\ ret.kind = "ok"
        /\ ret.val.R = arg.R /\ ret.val.C = arg.C
        /\ Len(ret.val.data) = Cells(m)
        /\ \A k \in 0 .. Cells(m) - 1 : ret.val.data[k + 1] = m.data[k + 1]

\* The reshape of test::algebra, 2 x 4 to 4 x 2, returned a matrix.
C9_Witness ==
    /\ op = "reshape"
    /\ m = ExampleA
    /\ arg.R = 4 /\ arg.C = 2
    /\ ret.kind = "ok"
    /\ ret.val = Mx(4, 2, <<0, 1, 2, 3, 4, 5, 6, 7>>)

\* C10: reshape to a shape with a different number of cells, larger or smaller, is
\* rejected: the guard expression can be evaluated exactly when the totals are equal.
C10_ReshapeGuard ==
    op = "reshape" =>
        /\ ReshapeBound(m.R, m.C, arg.R, arg.C) <=> Cells(m) = arg.R * arg.C
        /\ ret.kind = "ok" <=> Cells(m) = arg.R * arg.C
        /\ Cells(m) # arg.R * arg.C => ret.kind = "compile_error"

\* A reshape to a smaller shape was rejected.
C10_Witness ==
    /\ op = "reshape"
    /\ arg.R * arg.C < Cells(m)
    /\ arg.R * arg.C > 1
    /\ ret.kind = "compile_error"

\* The elements of mm are not all the same.
Varied(mm) == \E a, b \in DOMAIN mm.data : mm.data[a] # mm.data[b]

\* C11: transposing a matrix twice gives a matrix of the original shape that
\* compares equal to the original, for every shape, square or not.
C11_TransposeInvolution ==
    op = "transpose_twice" =>
        /\ ret.kind = "ok"
        /\ ret.val.R = m.R
        /\ ret.val.C = m.C
        /\ eq(ret.val, m)
        /\ m = old

\* A matrix that is not square, with rows and columns and varied elements, was
\* transposed twice.
C11_Witness ==
    /\ op = "transpose_twice"
    /\ m.R > 1
    /\ m.C > 1
    /\ m.R # m.C
    /\ Varied(m)
    /\ ret.kind = "ok"
    /\ ret.val = m

\* C12: the product of an R x C matrix with the C x C identity matrix is a matrix
\* of the shape R x C that compares equal to the matrix, for every shape.
C12_MultiplyIdentity ==
    op = "multiply_identity" =>
        /\ arg.rhs.R = m.C
        /\ arg.rhs.C = m.C
        /\ \A i, j \in 0 .. m.C - 1 :
             index(arg.rhs, m.C * i + j).val = IF i = j THEN 1 ELSE 0
        /\ ret.kind = "ok"
        /\ ret.val.R = m.R
        /\ ret.val.C = m.C
        /\ eq(ret.val, m)

\* A matrix that is not square, with varied elements, was multiplied by the
\* identity matrix.
C12_Witness ==
    /\ op = "multiply_identity"
    /\ m.R > 1
    /\ m.C > 1
    /\ m.R # m.C
    /\ Varied(m)
    /\ ret.kind = "ok"
    /\ ret.val = m

\* C13: for shapes of the same number of cells, reshaping a matrix to the other
\* shape and the result back to the shape of the matrix gives a matrix that
\* compares equal to the original.
C13_ReshapeRoundTrip ==
    (op = "reshape_back" /\ arg.R * arg.C = Cells(m)) =>
        /\ ret.kind = "ok"
        /\ ret.val.R = m.R
        /\ ret.val.C = m.C
        /\ eq(ret.val, m)

\* A matrix with varied elements went to a different shape and back.
C13_Witness ==
    /\ op = "reshape_back"
    /\ arg.R * arg.C = Cells(m)
    /\ arg.R # m.R
    /\ m.R > 1
    /\ arg.R > 1
    /\ Varied(m)
    /\ ret.kind = "ok"
    /\ ret.val = m

\* C14: an in-place operator a op= b, with a matrix or a scalar b, changes the
\* cells of the left operand a only: b is held in a place that is not the place
\* of a, also when b was made as a copy of a, and after the call every place
\* other than the one of a, the one of b among them, holds the cells it held
\* before the call; a keeps its number of cells.
C14_AssignKeepsRhs ==
    op = "assign" =>
        /\ arg.rhs.at # m.at
        /\ mem[arg.rhs.at] = was.mem[arg.rhs.at]
        /\ DOMAIN mem = DOMAIN was.mem
        /\ \A at \in DOMAIN mem \ {m.at} : mem[at] = was.mem[at]
        /\ Len(mem[m.at]) = Len(was.mem[m.at])

\* a op= b ran to its end with b made as a copy of a, and changed a: b holds what
\* a held before the call.
C14_Witness ==
    /\ op = "assign"
    /\ arg.kind = "copy"
    /\ ret.kind = "ok"
    /\ mem[m.at] # was.mem[m.at]
    /\ mem[arg.rhs.at] = was.mem[m.at]

\* C15: a call other than an in-place operator and an index-write (a binary or
\* unary operator, reshape, transpose, multiply, eq, from_iter of into_iter)
\* leaves the cells of both operands as they were, and a matrix it returns is
\* held in a new place, which is the place of no operand: a later write to the
\* result changes the result and leaves both operands, and a later write to an
\* operand changes that operand and leaves the result.
C15_PureCalls ==
    /\ op = "call" =>
          /\ \A at \in DOMAIN was.mem : mem[at] = was.mem[at]
          /\ (ret.kind = "ok" /\ arg.call # "eq") =>
                 /\ ret.val.at \notin DOMAIN was.mem
                 /\ ret.val.at \notin {m.at, arg.rhs.at}
    /\ op = "write_result" =>
          /\ mem[m.at] = was.mem[m.at]
          /\ mem[arg.rhs.at] = was.mem[arg.rhs.at]
          /\ mem[ret.val.at] # was.mem[ret.val.at]
    /\ op = "write_operand" =>
          /\ mem[ret.val.at] = was.mem[ret.val.at]
          /\ mem[m.at] # was.mem[m.at] \/ mem[arg.rhs.at] # was.mem[arg.rhs.at]

\* The 2 x 4 literal of the tests was reshaped into 4 x 2 and the result written
\* to: the literal is held as it was, the result differs from it.
C15_Witness ==
    /\ op = "write_result"
    /\ arg.call = "reshape"
    /\ Load(mem, m) = ExampleA
    /\ ret.val.R = 4
    /\ ret.val.C = 2
    /\ mem[ret.val.at] # mem[m.at]
    /\ mem[m.at] = was.mem[m.at]

\* C16: two matrices of the same shape compare equal exactly when their elements
\* are equal at every linear offset.
C16_Eq ==
    op = "eq" =>
        (ret.val <=> \A k \in 0 .. Cells(m) - 1 : index(m, k).val = index(arg.rhs, k).val)

\* Two matrices that differ at their last offset only compared unequal.
C16_Witness ==
    /\ op = "eq"
    /\ Cells(m) > 1
    /\ ret.val = FALSE
    /\ \A k \in 0 .. Cells(m) - 2 : index(m, k).val = index(arg.rhs, k).val
    /\ index(m, Cells(m) - 1).val # index(arg.rhs, Cells(m) - 1).val

\* The first literal of test::index.
IndexLiteral == <<<<0, 1, 2, 3>>, <<4, 5, 6, 7>>>>

\* C17: a nested-row literal of rows of one length gives a matrix of as many rows
\* as the literal has, of as many columns as a row has values, with value j of
\* row i at the linear offset i * C + j; the linear offset 5 of
\* [[0,1,2,3],[4,5,6,7]] holds 5.
C17_LiteralRowMajor ==
    (op = "matrix_rows" /\ ~UnequalRows(arg.rows)) =>
        /\ ret.kind = "ok"
        /\ m = ret.val
        /\ m.R = Len(arg.rows)
        /\ m.C = Len(arg.rows[1])
        /\ Len(m.data) = m.R * m.C
        /\ \A i \in 0 .. m.R - 1 :
             \A j \in 0 .. m.C - 1 :
                index(m, i * m.C + j) = [kind |-> "ok", at |-> i * m.C + j, val |-> arg.rows[i + 1][j + 1]]
        /\ arg.rows = IndexLiteral => index(m, 5).val = 5

\* The literal of test::index was built and holds 5 at the linear offset 5.
C17_Witness ==
    /\ op = "matrix_rows"
    /\ arg.rows = IndexLiteral
    /\ m.R = 2
    /\ m.C = 4
    /\ index(m, 5).val = 5

\* C18: an elementwise operator on two matrices of one shape returns a matrix of
\* that shape whose element at every linear offset k is the operator applied to
\* the elements of the left and of the right operand at k; when the operator
\* itself panics on a pair of elements, the call panics.
C18_BinaryElementwise ==
    op = "binary" =>
        IF \A k \in 0 .. Cells(m) - 1 :
              ElemOp(arg.f, index(m, k).val, index(arg.rhs, k).val).kind = "ok"
        THEN /\ ret.kind = "ok"
             /\ ret.val.R = m.R
             /\ ret.val.C = m.C
             /\ Len(ret.val.data) = Cells(m)
             /\ \A k \in 0 .. Cells(m) - 1 :
                  index(ret.val, k).val = ElemOp(arg.f, index(m, k).val, index(arg.rhs, k).val).val
        ELSE ret = Panic

\* <<1, 0, 1>> - <<0, 1, 1>> gave <<1, -1, 0>>.
C18_Witness ==
    /\ op = "binary"
    /\ arg.f = "sub"
    /\ m.data = <<1, 0, 1>>
    /\ arg.rhs.data = <<0, 1, 1>>
    /\ ret.kind = "ok"
    /\ ret.val.data = <<1, 0 - 1, 0>>

\* C19: an elementwise operator on a matrix and a scalar returns a matrix of the
\* shape of the matrix whose element at every linear offset k is the operator
\* applied to the element of the matrix at k, on the left, and the scalar, on
\* the right; when the operator itself panics, the call panics.
C19_BinaryScalar ==
    op = "binary_scalar" =>
        IF \A k \in 0 .. Cells(m) - 1 : ElemOp(arg.f, index(m, k).val, arg.rhs).kind = "ok"
        THEN /\ ret.kind = "ok"
             /\ ret.val.R = m.R
             /\ ret.val.C = m.C
             /\ Len(ret.val.data) = Cells(m)
             /\ \A k \in 0 .. Cells(m) - 1 :
                  index(ret.val, k).val = ElemOp(arg.f, index(m, k).val, arg.rhs).val
        ELSE ret = Panic

\* <<0, 1, 0>> - 1 gave <<-1, 0, -1>>.
C19_Witness ==
    /\ op = "binary_scalar"
    /\ arg.f = "sub"
    /\ arg.rhs = 1
    /\ m.data = <<0, 1, 0>>
    /\ ret.kind = "ok"
    /\ ret.val.data = <<0 - 1, 0, 0 - 1>>

\* C20: transpose and multiply return for every shape: every offset they read or
\* write is inside the matrix it addresses, and the call does not panic.
C20_NoPanic ==
    /\ op = "transpose" =>
        /\ \A i \in 0 .. m.R - 1 :
             \A j \in 0 .. m.C - 1 :
                /\ TransposeSrc(m, i, j) < Len(m.data)
                /\ TransposeDst(m, i, j) < m.C * m.R
        /\ ret.kind = "ok"
        /\ Len(ret.val.data) = m.C * m.R
    /\ op \in {"multiply", "multiply_identity"} =>
        /\ \A i \in 0 .. m.R - 1 :
             \A j \in 0 .. arg.rhs.C - 1 :
                /\ MultiplyDst(m, arg.rhs, i, j) < m.R * arg.rhs.C
                /\ \A k \in 0 .. m.C - 1 :
                     /\ MultiplyLhs(m, arg.rhs, i, k) < Len(m.data)
                     /\ MultiplyRhs(m, arg.rhs, k, j) < Len(arg.rhs.data)
        /\ ret.kind = "ok"
        /\ Len(ret.val.data) = m.R * arg.rhs.C

\* The 4 x 2 literal of test::algebra was multiplied by the 2 x 4 one.
C20_Witness ==
    /\ op = "multiply"
    /\ m = ExampleB
    /\ arg.rhs = ExampleA
    /\ ret.kind = "ok"
    /\ ret.val.R = 4
    /\ ret.val.C = 4

\* C22: the row-vector form with D values gives a matrix of 1 row and D columns,
\* the column-vector form with D values one of D rows and 1 column, and in both
\* the value listed at position k is the element at the linear offset k.
C22_VectorLiterals ==
    /\ op = "matrix_vr" =>
        /\ ret.kind = "ok"
        /\ m = ret.val
        /\ m.R = 1
        /\ m.C = Len(arg.values)
        /\ \A k \in 0 .. Len(arg.values) - 1 :
             index(m, k) = [kind |-> "ok", at |-> k, val |-> arg.values[k + 1]]
    /\ op = "matrix_vc" =>
        /\ ret.kind = "ok"
        /\ m = ret.val
        /\ m.R = Len(arg.values)
        /\ m.C = 1
        /\ \A k \in 0 .. Len(arg.values) - 1 :
             index(m, k) = [kind |-> "ok", at |-> k, val |-> arg.values[k + 1]]

\* The row vector of test::init was built: 1 row, 4 columns, the values in order.
C22_Witness ==
    /\ op = "matrix_vr"
    /\ arg.values = <<0, 1, 2, 3>>
    /\ m.R = 1
    /\ m.C = 4
    /\ index(m, 3).val = 3

\* C23: after a 2-D write at a valid coordinate, a 2-D read at that coordinate
\* gives the value written, and a 2-D read at every other valid coordinate gives
\* what it gave before the write: distinct valid coordinates are distinct cells.
C23_Index2WriteThenRead ==
    (op = "index2_mut" /\ Below(arg.row, old.R) /\ Below(arg.col, old.C) /\ ret.kind = "ok") =>
        \A i \in 0 .. old.R - 1 :
            \A j \in 0 .. old.C - 1 :
                index2(m, USize(i), USize(j)) =
                    IF USize(i) = arg.row /\ USize(j) = arg.col
                    THEN [ret EXCEPT !.val = arg.v]
                    ELSE index2(old, USize(i), USize(j))

\* C24: a 2-D read or write at a valid coordinate does not panic, whatever the
\* shape.
C24_ValidIndex2NoPanic ==
    (op \in {"index2", "index2_mut"} /\ Below(arg.row, old.R) /\ Below(arg.col, old.C)) =>
        ret.kind = "ok"

\* The coordinates of transpose's loops that write the offset k of the result.
WritersOf(mm, k) ==
    {ij \in (0 .. mm.R - 1) \X (0 .. mm.C - 1) : TransposeDst(mm, ij[1], ij[2]) = k}

\* C25: when transpose returns, every cell of the result was assigned exactly once
\* over the loops, from an element of the input, so the result is the same
\* whatever the uninitialised matrix held: a cell that kept its content would
\* show each of the contents it can have, values no element has included.
C25_TransposeAssignsAll ==
    op = "transpose" =>
        /\ ret.kind = "ok"
        /\ Len(ret.val.data) = m.C * m.R
        /\ \A k \in 0 .. m.C * m.R - 1 : Cardinality(WritersOf(m, k)) = 1
        /\ \A k \in 0 .. m.C * m.R - 1 :
             \A ij \in WritersOf(m, k) :
                index(ret.val, k).val = index(m, TransposeSrc(m, ij[1], ij[2])).val
        /\ \A g \in Garbage : transpose(m, [k \in 1 .. Cells(m) |-> g]) = ret

\* A matrix that is not square, with varied elements, was transposed, and a
\* marker in the uninitialised cells does not show in the result.
C25_Witness ==
    /\ op = "transpose"
    /\ m.R > 1
    /\ m.C > 1
    /\ m.R # m.C
    /\ Varied(m)
    /\ transpose(m, [k \in 1 .. Cells(m) |-> IF k = 1 THEN 0 ELSE 0 - 1]) = ret

\* C26: the in-place form leaves in a the matrix the value-producing form returns
\* on the same operands, for a matrix and for a scalar on the right and for
\* every operator family; where the value-producing form panics, so does the
\* in-place form.
C26_AssignMatchesBinary ==
    /\ op = "assign" =>
        LET v == op_math_binary(arg.f, old, arg.rhs)
        IN  IF v.kind = "ok"
            THEN ret.kind = "ok" /\ eq(m, v.val) /\ m = v.val
            ELSE ret.kind = "panic"
    /\ op = "assign_scalar" =>
        LET v == op_math_binary_scalar(arg.f, old, arg.rhs)
        IN  IF v.kind = "ok"
            THEN ret.kind = "ok" /\ eq(m, v.val) /\ m = v.val
            ELSE ret.kind = "panic"

\* <<1, 0, 1>> -= <<0, 1, 1>> left <<1, -1, 0>>, what the subtraction returns.
C26_Witness ==
    /\ op = "assign"
    /\ arg.f = "sub"
    /\ old.data = <<1, 0, 1>>
    /\ arg.rhs.data = <<0, 1, 1>>
    /\ ret.kind = "ok"
    /\ m.data = <<1, 0 - 1, 0>>
    /\ op_math_binary("sub", old, arg.rhs) = Ok(m)

\* The items the input of the from_iter call gives to a matrix of n cells.
Passed(it, n) ==
    IF it.kind = "cycle"
    THEN [k \in 1 .. n |-> it.items[((k - 1) % Len(it.items)) + 1]]
    ELSE it.items

\* The steps of a call never exceed the number the dimensions give, and a call
\* that has returned took exactly that many and returned what the call returns.
C21_StepBound ==
    /\ (op \in {"loop", "returned"} /\ arg.call = "from_iter") =>
        /\ arg.pulled <= arg.R * arg.C
        /\ arg.steps <= arg.R * arg.C
        /\ op = "returned" =>
            /\ arg.pulled = Min(Len(Passed(arg.it, arg.R * arg.C)), arg.R * arg.C)
            /\ ret = Ok(from_iter(arg.R, arg.C, Passed(arg.it, arg.R * arg.C)))
    /\ (op \in {"loop", "returned"} /\ arg.call \in {"binary", "binary_scalar"}) =>
        /\ arg.pulled <= m.R * m.C
        /\ arg.steps <= m.R * m.C
        /\ op = "returned" =>
            /\ ret.kind = "ok" => arg.steps = m.R * m.C
            /\ ret = IF arg.call = "binary"
                     THEN op_math_binary(arg.it.f, m, arg.rhs)
                     ELSE op_math_binary_scalar(arg.it.f, m, arg.scalar)
    /\ (op \in {"loop", "returned"} /\ arg.call = "assign") =>
        /\ arg.steps <= old.R * old.C
        /\ op = "returned" =>
            /\ ret.kind = "ok" => arg.steps = old.R * old.C
            /\ ret.kind = op_math_assign(arg.f, old, arg.rhs).kind
            /\ m = op_math_assign(arg.f, old, arg.rhs).self
    /\ (op \in {"loop", "returned"} /\ arg.call = "transpose") =>
        /\ arg.steps <= m.R * m.C
        /\ op = "returned" =>
            /\ arg.steps = m.R * m.C
            /\ ret = transpose(m, arg.junk)
    /\ (op \in {"loop", "returned"} /\ arg.call = "multiply") =>
        /\ arg.steps <= m.R * arg.rhs.C * m.C
        /\ op = "returned" =>
            /\ arg.steps = m.R * arg.rhs.C * m.C
            /\ ret = multiply(m, arg.rhs)

\* C21: every call returns, after a number of steps the dimensions alone bound:
\* from_iter takes at most R * C items from its input, also from one that never
\* ends; an elementwise operator and transpose take R * C element steps; multiply
\* takes R * C2 * C accumulation steps.
C21_BoundedTermination == []C21_StepBound /\ <>(op = "returned")

\* from_iter returned after R * C items of an input that never ends and is
\* shorter than R * C before it repeats.
C21_Witness ==
    /\ op = "returned"
    /\ arg.call = "from_iter"
    /\ arg.it.kind = "cycle"
    /\ Len(arg.it.items) < arg.R * arg.C
    /\ arg.pulled = arg.R * arg.C
    /\ ret.kind = "ok"

====
